---- MODULE Spec2Model ----
(***************************************************************************)
(* The validation job engine of server/routes.ts: the MemStorage maps of   *)
(* files, accounts and jobs, the module-level validationQueue /            *)
(* isValidating / validationSettings, the drain cycle                      *)
(* processValidationQueue, and the HTTP handlers that drive them.          *)
(*                                                                         *)
(* Granularity.  Node runs one macrotask at a time and drains the          *)
(* microtask queue before the next one.  Every MemStorage method resolves  *)
(* immediately, so a handler that awaits only storage is one atomic step;  *)
(* the only awaits that let another request or timer in are the outbound   *)
(* fetches inside validateTiendaNubeAccount.  Hence: every handler is one  *)
(* action, the start of a cycle (guard, getCurrentJob, splice, launching   *)
(* the attempts) belongs to the step that calls processValidationQueue,    *)
(* each attempt finishes in a step of its own, and the fold after          *)
(* Promise.all belongs to the step of the last attempt to finish.          *)
(***************************************************************************)
EXTENDS Integers, Sequences, FiniteSets

\* ------------------------------------------------------------------ bounds
MaxAccounts == 2    \* accounts ever created (account ids are never reused)
MaxJobs == 2        \* jobs ever created
MaxWidth == 2       \* largest concurrentThreads a start request asks for
MaxClock == 2       \* the logical clock stops advancing here
MaxRestartJobs == 3 \* jobs ever created in a run of SpecRestart
MaxTokens == 4      \* tokens strung together into the text of an uploaded file
MaxMarkers == 2     \* markers held by the body of a login response

\* --------------------------------------- validationSettingsSchema constants
MinThreads == 1
MaxThreads == 100
DefaultThreads == 10
DefaultTimeoutSeconds == 30
DefaultRetries == 3

VARIABLES
    files,              \* MemStorage.files: the ids of the stored files
    currentFileId,      \* MemStorage.currentFileId
    accounts,           \* MemStorage.accounts: id -> [fileId, status, errorMessage]
    currentAccountId,   \* MemStorage.currentAccountId
    jobs,               \* MemStorage.jobs: job id i is jobs[i] (jobs are never deleted)
    clock,              \* what new Date() returns next
    validationQueue,    \* the module-level queue (account ids, FIFO)
    isValidating,       \* the module-level re-entrancy flag
    validationSettings, \* the module-level settings
    cycles,             \* the processValidationQueue invocations awaiting Promise.all
    timers,             \* pending setTimeout(processValidationQueue, 1000) callbacks
    lastResponse,       \* the last HTTP response sent: [op, code]
    content,            \* the text of the uploaded file, a sequence of characters
    parsed,             \* what parseAccountFile(content) returned
    loginResponse,      \* the response to the login POST of an attempt
    outcome             \* what validateTiendaNubeAccount returned for it

\* The input and the result of the two pure functions of routes.ts.
pureVars == <<content, parsed, loginResponse, outcome>>

vars == <<files, currentFileId, accounts, currentAccountId, jobs, clock,
          validationQueue, isValidating, validationSettings, cycles, timers,
          lastResponse, content, parsed, loginResponse, outcome>>

\* ----------------------------------------------------------------- helpers
Min(a, b) == IF a <= b THEN a ELSE b

Range(s) == {s[i] : i \in 1..Len(s)}

RemoveAt(s, i) == SubSeq(s, 1, i - 1) \o SubSeq(s, i + 1, Len(s))

\* Array.from(map.values()) of a Map whose keys were inserted in increasing
\* order: the ids in S, ascending.
RECURSIVE Ascending(_)
Ascending(S) ==
    IF S = {} THEN <<>>
    ELSE LET m == CHOOSE x \in S : \A y \in S : x <= y
         IN <<m>> \o Ascending(S \ {m})

NoMessage == "null"

Response(op, code) == [op |-> op, code |-> code]

\* ------------------------------------------------------------- the schema
\* A request body carries concurrentThreads; timeoutSeconds and retries are
\* left out and take their defaults.
Bodies == [concurrentThreads : 0..MaxWidth]

SchemaAccepts(body) ==
    body.concurrentThreads >= MinThreads /\ body.concurrentThreads <= MaxThreads

SchemaParse(body) ==
    [concurrentThreads |-> body.concurrentThreads,
     timeoutSeconds |-> DefaultTimeoutSeconds,
     retries |-> DefaultRetries]

InitialSettings ==
    [concurrentThreads |-> DefaultThreads,
     timeoutSeconds |-> DefaultTimeoutSeconds,
     retries |-> DefaultRetries]

\* ---------------------------------------------------- MemStorage: accounts
GetAllAccounts(accts) == Ascending(DOMAIN accts)

\* PendingAccounts without the filter on the status.
PendingAccountsUnfiltered(accts) == Ascending(DOMAIN accts)

\* allAccounts.filter(account => account.status === 'pending')
PendingAccounts(accts) ==
    Ascending({a \in DOMAIN accts : accts[a].status = "pending"})

UpdateAccountStatus(accts, id, status, errorMessage) ==
    IF id \in DOMAIN accts
    THEN [accts EXCEPT ![id] =
            [@ EXCEPT !.status = status,
                      !.errorMessage = IF errorMessage # NoMessage
                                       THEN errorMessage ELSE @]]
    ELSE accts

DeleteAccountsOfFile(accts, id) ==
    [a \in {x \in DOMAIN accts : accts[x].fileId # id} |-> accts[a]]

\* -------------------------------------------------------- MemStorage: jobs
CreateValidationJob(settings, total) ==
    [status |-> "running", settings |-> settings, totalAccounts |-> total,
     processedAccounts |-> 0, validAccounts |-> 0, invalidAccounts |-> 0,
     errorAccounts |-> 0, startedAt |-> 0, pausedAt |-> 0, completedAt |-> 0]

IsActive(job) == job.status = "running" \/ job.status = "paused"

\* GetCurrentJob without the search for an active job: always the last one.
GetLatestJob(js) == Len(js)

\* The id of the job getCurrentJob returns; 0 stands for undefined.
GetCurrentJob(js) ==
    IF \E i \in 1..Len(js) : IsActive(js[i])
    THEN CHOOSE i \in 1..Len(js) :
            IsActive(js[i]) /\ \A k \in 1..(i - 1) : ~IsActive(js[k])
    ELSE Len(js)

UpdateJobStatus(js, id, status, now) ==
    IF id \in 1..Len(js)
    THEN [js EXCEPT ![id] =
            IF status = "running"
            THEN [@ EXCEPT !.status = status, !.startedAt = now, !.pausedAt = 0]
            ELSE IF status = "paused"
            THEN [@ EXCEPT !.status = status, !.pausedAt = now]
            ELSE IF status = "stopped" \/ status = "completed"
            THEN [@ EXCEPT !.status = status, !.completedAt = now]
            ELSE [@ EXCEPT !.status = status]]
    ELSE js

UpdateJobProgress(js, id, processed, valid, invalid, errors) ==
    IF id \in 1..Len(js)
    THEN [js EXCEPT ![id] =
            [@ EXCEPT !.processedAccounts = processed,
                      !.validAccounts = valid,
                      !.invalidAccounts = invalid,
                      !.errorAccounts = errors]]
    ELSE js

\* new Date(): the clock is read and moves on (it stops at MaxClock).
Advance(now) == IF now < MaxClock THEN now + 1 ELSE now

\* ------------------------------------------------------------- the prober
\* What validateTiendaNubeAccount can return: it catches every failure, so
\* each call ends in one of its return statements.
ValidateResults ==
    { [valid |-> TRUE,  error |-> NoMessage],
      [valid |-> FALSE, error |-> "No se encontro tienda asociada al email"],
      [valid |-> FALSE, error |-> "No se pudo acceder a la pagina de login"],
      [valid |-> FALSE, error |-> "Credenciales incorrectas"],
      [valid |-> FALSE, error |-> "No se pudo verificar el acceso al dashboard"],
      [valid |-> FALSE, error |-> "Error de conexion"] }

\* The two results of a login exchange that ran to its classification: the
\* redirect/body success (valid) and the invalid-credential marker.
LoginResults ==
    { [valid |-> TRUE,  error |-> NoMessage],
      [valid |-> FALSE, error |-> "Credenciales incorrectas"] }

\* RecordOutcome in which a failed attempt takes every pending account down
\* with it.
RecordOutcomeFailingAll(accts, id, result) ==
    IF result.valid
    THEN UpdateAccountStatus(accts, id, "valid", NoMessage)
    ELSE [a \in DOMAIN accts |->
             IF accts[a].status = "pending"
             THEN [accts[a] EXCEPT !.status = "invalid", !.errorMessage = result.error]
             ELSE accts[a]]

\* The write-back of one attempt (the body of batch.map's callback after
\* validateTiendaNubeAccount returned).
RecordOutcome(accts, id, result) ==
    IF result.valid
    THEN UpdateAccountStatus(accts, id, "valid", NoMessage)
    ELSE UpdateAccountStatus(accts, id, "invalid", result.error)

\* ---------------------------------------------------------- the scheduler
\* CallReturnsAtOnce without the isValidating test.
CallReturnsOnEmptyQueueOnly(isV, queue) == Len(queue) = 0

\* The first line of processValidationQueue: the call returns at once.
CallReturnsAtOnce(isV, queue) == isV \/ Len(queue) = 0

\* BatchSize without the width: the whole queue is one batch.
BatchSizeWholeQueue(settings, queue) == Len(queue)

\* Math.min(validationSettings.concurrentThreads, validationQueue.length)
BatchSize(settings, queue) == Min(settings.concurrentThreads, Len(queue))

\* processValidationQueue up to its await Promise.all: the values of
\* isValidating, validationQueue and cycles the call leaves behind. A cycle
\* records the job it runs for, its batch, the accounts whose attempts are in
\* flight (left) and those whose attempts began more than the job's
\* timeoutSeconds ago (overdue).
ProcessValidationQueue(isV, queue, js, settings, cyc) ==
    IF CallReturnsAtOnce(isV, queue)
    THEN [isValidating |-> isV, validationQueue |-> queue, cycles |-> cyc]
    ELSE LET currentJob == GetCurrentJob(js) IN
         IF currentJob = 0 \/ js[currentJob].status # "running"
         THEN [isValidating |-> FALSE, validationQueue |-> queue, cycles |-> cyc]
         ELSE LET batchSize == BatchSize(settings, queue)
                  batch == SubSeq(queue, 1, batchSize)
              IN [isValidating |-> TRUE,
                  validationQueue |-> SubSeq(queue, batchSize + 1, Len(queue)),
                  cycles |-> Append(cyc, [job |-> currentJob, batch |-> batch,
                                          left |-> Range(batch),
                                          overdue |-> {}])]

\* CountProcessed with the filter dropped: every stored account counts.
CountProcessedUnfiltered(accts) == Cardinality(DOMAIN accts)

\* The counts the fold takes from one getAllAccounts snapshot.
CountProcessed(accts) ==
    Cardinality({a \in DOMAIN accts : accts[a].status # "pending"})

CountStatus(accts, status) ==
    Cardinality({a \in DOMAIN accts : accts[a].status = status})

FoldProgress(js, id, accts) ==
    UpdateJobProgress(js, id, CountProcessed(accts), CountStatus(accts, "valid"),
                      CountStatus(accts, "invalid"), CountStatus(accts, "error"))

\* The tail of processValidationQueue, after isValidating = false: what it
\* decides from the re-read current job and the queue.
FoldDecision(js, queue) ==
    LET updatedJob == GetCurrentJob(js) IN
    IF updatedJob # 0 /\ js[updatedJob].status = "running" /\ Len(queue) > 0
    THEN "reschedule"
    ELSE IF Len(queue) = 0 /\ updatedJob # 0
    THEN "complete"
    ELSE "halt"

\* ------------------------------------------------------------------- Init
InitProgram ==
    /\ files = {}
    /\ currentFileId = 1
    /\ accounts = <<>>
    /\ currentAccountId = 1
    /\ jobs = <<>>
    /\ clock = 1
    /\ validationQueue = <<>>
    /\ isValidating = FALSE
    /\ validationSettings = InitialSettings
    /\ cycles = <<>>
    /\ timers = 0
    /\ lastResponse = Response("none", 0)

\* No file text and no login response are at hand after construction.
NoLoginResponse == [status |-> 0, location |-> {}, body |-> {}]

NoOutcome == [valid |-> FALSE, error |-> NoMessage]

Init ==
    /\ InitProgram
    /\ content = <<>>
    /\ parsed = <<>>
    /\ loginResponse = NoLoginResponse
    /\ outcome = NoOutcome

\* --------------------------------------------------------------- handlers
\* POST /api/files/upload, after parseAccountFile recovered n accounts from
\* the one .txt file of the request: the file and its accounts are stored.
StoreParsed(n) ==
    /\ currentAccountId + n - 1 <= MaxAccounts
    /\ files' = files \cup {currentFileId}
    /\ currentFileId' = currentFileId + 1
    /\ accounts' =
         [a \in DOMAIN accounts \cup (currentAccountId..(currentAccountId + n - 1)) |->
            IF a \in DOMAIN accounts THEN accounts[a]
            ELSE [fileId |-> currentFileId, status |-> "pending",
                  errorMessage |-> NoMessage]]
    /\ currentAccountId' = currentAccountId + n
    /\ lastResponse' = Response("upload", 200)
    /\ UNCHANGED <<jobs, clock, validationQueue, isValidating,
                   validationSettings, cycles, timers>>

\* POST /api/files/upload with one .txt file from which parseAccountFile
\* recovers n accounts.
Upload(n) ==
    /\ StoreParsed(n)
    /\ UNCHANGED pureVars

\* DELETE /api/files/:id
DeleteFile(id) ==
    /\ files' = files \ {id}
    /\ accounts' = DeleteAccountsOfFile(accounts, id)
    /\ lastResponse' = Response("delete", 200)
    /\ UNCHANGED pureVars
    /\ UNCHANGED <<currentFileId, currentAccountId, jobs, clock, validationQueue,
                   isValidating, validationSettings, cycles, timers>>

\* POST /api/validation/start, body refused by validationSettingsSchema.parse
StartBadBody(body) ==
    /\ ~SchemaAccepts(body)
    /\ lastResponse' = Response("start", 500)
    /\ UNCHANGED pureVars
    /\ UNCHANGED <<files, currentFileId, accounts, currentAccountId, jobs, clock,
                   validationQueue, isValidating, validationSettings, cycles,
                   timers>>

\* POST /api/validation/start, no account is pending
StartNoPending(body) ==
    /\ SchemaAccepts(body)
    /\ validationSettings' = SchemaParse(body)
    /\ Len(PendingAccounts(accounts)) = 0
    /\ lastResponse' = Response("start", 400)
    /\ UNCHANGED pureVars
    /\ UNCHANGED <<files, currentFileId, accounts, currentAccountId, jobs, clock,
                   validationQueue, isValidating, cycles, timers>>

\* POST /api/validation/start, the job is created and the queue seeded;
\* limit caps the number of jobs a run creates.
StartJobWithin(body, limit) ==
    /\ SchemaAccepts(body)
    /\ Len(jobs) < limit
    /\ LET settings == SchemaParse(body)
           pendingAccounts == PendingAccounts(accounts)
           created == Append(jobs, CreateValidationJob(settings, Len(pendingAccounts)))
           started == UpdateJobStatus(created, Len(created), "running", clock)
           call == ProcessValidationQueue(isValidating, pendingAccounts, started,
                                          settings, cycles)
       IN /\ Len(pendingAccounts) # 0
          /\ validationSettings' = settings
          /\ jobs' = started
          /\ clock' = Advance(clock)
          /\ isValidating' = call.isValidating
          /\ validationQueue' = call.validationQueue
          /\ cycles' = call.cycles
    /\ lastResponse' = Response("start", 200)
    /\ UNCHANGED pureVars
    /\ UNCHANGED <<files, currentFileId, accounts, currentAccountId, timers>>

StartJob(body) == StartJobWithin(body, MaxJobs)

Start == \E body \in Bodies : StartBadBody(body) \/ StartNoPending(body) \/ StartJob(body)

\* PauseAllowed that also lets a paused job through.
PauseAllowedWhenActive(js, cur) == cur # 0 /\ IsActive(js[cur])

\* The source states the control handlers require of the current job.
PauseAllowed(js, cur) == cur # 0 /\ js[cur].status = "running"

ResumeAllowed(js, cur) == cur # 0 /\ js[cur].status = "paused"

StopAllowed(js, cur) ==
    cur # 0 /\ (js[cur].status = "running" \/ js[cur].status = "paused")

\* POST /api/validation/pause
PauseJob ==
    /\ PauseAllowed(jobs, GetCurrentJob(jobs))
    /\ jobs' = UpdateJobStatus(jobs, GetCurrentJob(jobs), "paused", clock)
    /\ clock' = Advance(clock)
    /\ lastResponse' = Response("pause", 200)
    /\ UNCHANGED pureVars
    /\ UNCHANGED <<files, currentFileId, accounts, currentAccountId,
                   validationQueue, isValidating, validationSettings, cycles,
                   timers>>

PauseRefused ==
    /\ ~PauseAllowed(jobs, GetCurrentJob(jobs))
    /\ lastResponse' = Response("pause", 400)
    /\ UNCHANGED pureVars
    /\ UNCHANGED <<files, currentFileId, accounts, currentAccountId, jobs, clock,
                   validationQueue, isValidating, validationSettings, cycles,
                   timers>>

Pause == PauseJob \/ PauseRefused

\* POST /api/validation/resume
ResumeJob ==
    /\ ResumeAllowed(jobs, GetCurrentJob(jobs))
    /\ LET resumed == UpdateJobStatus(jobs, GetCurrentJob(jobs), "running", clock)
           call == ProcessValidationQueue(isValidating, validationQueue, resumed,
                                          validationSettings, cycles)
       IN /\ jobs' = resumed
          /\ clock' = Advance(clock)
          /\ isValidating' = call.isValidating
          /\ validationQueue' = call.validationQueue
          /\ cycles' = call.cycles
    /\ lastResponse' = Response("resume", 200)
    /\ UNCHANGED pureVars
    /\ UNCHANGED <<files, currentFileId, accounts, currentAccountId,
                   validationSettings, timers>>

ResumeRefused ==
    /\ ~ResumeAllowed(jobs, GetCurrentJob(jobs))
    /\ lastResponse' = Response("resume", 400)
    /\ UNCHANGED pureVars
    /\ UNCHANGED <<files, currentFileId, accounts, currentAccountId, jobs, clock,
                   validationQueue, isValidating, validationSettings, cycles,
                   timers>>

Resume == ResumeJob \/ ResumeRefused

\* StopJob without validationQueue = []: the queue is kept.
StopJobKeepingQueue ==
    /\ StopAllowed(jobs, GetCurrentJob(jobs))
    /\ jobs' = UpdateJobStatus(jobs, GetCurrentJob(jobs), "stopped", clock)
    /\ clock' = Advance(clock)
    /\ lastResponse' = Response("stop", 200)
    /\ UNCHANGED pureVars
    /\ UNCHANGED <<files, currentFileId, accounts, currentAccountId, isValidating,
                   validationQueue, validationSettings, cycles, timers>>

\* POST /api/validation/stop
StopJob ==
    /\ StopAllowed(jobs, GetCurrentJob(jobs))
    /\ jobs' = UpdateJobStatus(jobs, GetCurrentJob(jobs), "stopped", clock)
    /\ clock' = Advance(clock)
    /\ validationQueue' = <<>>
    /\ lastResponse' = Response("stop", 200)
    /\ UNCHANGED pureVars
    /\ UNCHANGED <<files, currentFileId, accounts, currentAccountId, isValidating,
                   validationSettings, cycles, timers>>

StopRefused ==
    /\ ~StopAllowed(jobs, GetCurrentJob(jobs))
    /\ lastResponse' = Response("stop", 400)
    /\ UNCHANGED pureVars
    /\ UNCHANGED <<files, currentFileId, accounts, currentAccountId, jobs, clock,
                   validationQueue, isValidating, validationSettings, cycles,
                   timers>>

Stop == StopJob \/ StopRefused

\* ------------------------------------------------------- scheduler steps
\* A setTimeout(processValidationQueue, 1000) callback runs.
TimerFires ==
    /\ timers > 0
    /\ timers' = timers - 1
    /\ LET call == ProcessValidationQueue(isValidating, validationQueue, jobs,
                                          validationSettings, cycles)
       IN /\ isValidating' = call.isValidating
          /\ validationQueue' = call.validationQueue
          /\ cycles' = call.cycles
    /\ UNCHANGED pureVars
    /\ UNCHANGED <<files, currentFileId, accounts, currentAccountId, jobs, clock,
                   validationSettings, lastResponse>>

\* AttemptDone that also writes the job's counters after its own write-back.
AttemptDoneWithProgress(c, a, result) ==
    /\ c \in 1..Len(cycles)
    /\ a \in cycles[c].left
    /\ cycles[c].left # {a}
    /\ accounts' = RecordOutcome(accounts, a, result)
    /\ jobs' = FoldProgress(jobs, cycles[c].job, RecordOutcome(accounts, a, result))
    /\ cycles' = [cycles EXCEPT ![c].left = @ \ {a}]
    /\ UNCHANGED pureVars
    /\ UNCHANGED <<files, currentFileId, currentAccountId, clock,
                   validationQueue, isValidating, validationSettings, timers,
                   lastResponse>>

\* One attempt of cycle c finishes while others of its batch are in flight.
AttemptDone(c, a, result) ==
    /\ c \in 1..Len(cycles)
    /\ a \in cycles[c].left
    /\ cycles[c].left # {a}
    /\ accounts' = RecordOutcome(accounts, a, result)
    /\ cycles' = [cycles EXCEPT ![c].left = @ \ {a}]
    /\ UNCHANGED pureVars
    /\ UNCHANGED <<files, currentFileId, currentAccountId, jobs, clock,
                   validationQueue, isValidating, validationSettings, timers,
                   lastResponse>>

\* The last attempt of cycle c finishes: Promise.all resolves and the rest of
\* processValidationQueue runs.
BatchFold(c, a, result) ==
    /\ c \in 1..Len(cycles)
    /\ cycles[c].left = {a}
    /\ LET recorded == RecordOutcome(accounts, a, result)
           folded == FoldProgress(jobs, cycles[c].job, recorded)
           decision == FoldDecision(folded, validationQueue)
       IN /\ accounts' = recorded
          /\ isValidating' = FALSE
          /\ timers' = IF decision = "reschedule" THEN timers + 1 ELSE timers
          /\ jobs' = IF decision = "complete"
                     THEN UpdateJobStatus(folded, GetCurrentJob(folded),
                                          "completed", clock)
                     ELSE folded
          /\ clock' = IF decision = "complete" THEN Advance(clock) ELSE clock
    /\ cycles' = RemoveAt(cycles, c)
    /\ UNCHANGED pureVars
    /\ UNCHANGED <<files, currentFileId, currentAccountId, validationQueue,
                   validationSettings, lastResponse>>

\* The job's timeoutSeconds elapse on the attempt on account a of cycle c. The
\* fetch calls of the attempt carry no timeout and no abort signal, and no
\* timer was set for the attempt: nothing runs, the attempt stays in flight.
TimeoutElapses(c, a) ==
    /\ c \in 1..Len(cycles)
    /\ a \in cycles[c].left \ cycles[c].overdue
    /\ cycles' = [cycles EXCEPT ![c].overdue = @ \cup {a}]
    /\ UNCHANGED pureVars
    /\ UNCHANGED <<files, currentFileId, accounts, currentAccountId, jobs, clock,
                   validationQueue, isValidating, validationSettings, timers,
                   lastResponse>>

\* ------------------------------------------------------ the specification
\* Requests to the job control surface and uploads.
Request ==
    \/ \E n \in 1..MaxAccounts : Upload(n)
    \/ \E body \in Bodies : StartBadBody(body)
    \/ \E body \in Bodies : StartNoPending(body)
    \/ \E body \in Bodies : StartJob(body)
    \/ PauseJob
    \/ PauseRefused
    \/ ResumeJob
    \/ ResumeRefused
    \/ StopJob
    \/ StopRefused

\* Timer callbacks and attempts finishing with a login result.
Scheduler ==
    \/ TimerFires
    \/ \E c \in 1..Len(cycles) : \E a \in cycles[c].left :
          \E result \in LoginResults : AttemptDone(c, a, result)
    \/ \E c \in 1..Len(cycles) : \E a \in cycles[c].left :
          \E result \in LoginResults : BatchFold(c, a, result)

Next == Request \/ Scheduler

Spec == Init /\ [][Next]_vars

\* The same with files being deleted.
NextFiles == Next \/ \E id \in 1..(currentFileId - 1) : DeleteFile(id)

SpecFiles == Init /\ [][NextFiles]_vars

\* A run in which nobody pauses, resumes or stops: uploads, starts and the
\* scheduler only.
NextNoControl ==
    \/ \E n \in 1..MaxAccounts : Upload(n)
    \/ \E body \in Bodies : StartBadBody(body)
    \/ \E body \in Bodies : StartNoPending(body)
    \/ \E body \in Bodies : StartJob(body)
    \/ Scheduler

SpecNoControl == Init /\ [][NextNoControl]_vars

\* The result validateTiendaNubeAccount returns from its catch block, when a
\* fetch of the attempt was rejected.
TransportFailure == [valid |-> FALSE, error |-> "Error de conexion"]

\* Timer callbacks and attempts finishing with any result of the prober.
SchedulerAnyResult ==
    \/ TimerFires
    \/ \E c \in 1..Len(cycles) : \E a \in cycles[c].left :
          \E result \in ValidateResults : AttemptDone(c, a, result)
    \/ \E c \in 1..Len(cycles) : \E a \in cycles[c].left :
          \E result \in ValidateResults : BatchFold(c, a, result)

\* Uploads, starts and the scheduler, the prober returning any of its results.
NextProber ==
    \/ \E n \in 1..MaxAccounts : Upload(n)
    \/ \E body \in Bodies : StartJob(body)
    \/ SchedulerAnyResult

SpecProber == Init /\ [][NextProber]_vars

\* A run of uploads, starts (up to MaxRestartJobs jobs) and pauses, with the
\* scheduler: nobody resumes or stops.
NextRestart ==
    \/ \E n \in 1..MaxAccounts : Upload(n)
    \/ \E body \in Bodies : StartJobWithin(body, MaxRestartJobs)
    \/ PauseJob
    \/ Scheduler

SpecRestart == Init /\ [][NextRestart]_vars

\* Uploads, starts and the scheduler, with time passing on the attempts in
\* flight.
NextTimeout ==
    \/ \E n \in 1..MaxAccounts : Upload(n)
    \/ \E body \in Bodies : StartJob(body)
    \/ \E c \in 1..Len(cycles) : \E a \in cycles[c].left : TimeoutElapses(c, a)
    \/ Scheduler

SpecTimeout == Init /\ [][NextTimeout]_vars

\* The result validateTiendaNubeAccount returns when the account has no
\* storeUrl and discoverTiendaNubeStore found no store.
EndpointUndiscoverable ==
    [valid |-> FALSE, error |-> "No se encontro tienda asociada al email"]

\* ------------------------------------------------------- parseAccountFile
\* A text is a sequence of characters, each a one-character string; the
\* empty sequence is the empty string, which JavaScript treats as false.
Letters ==
    {"a", "b", "c", "d", "e", "f", "g", "h", "i", "j", "k", "l", "m",
     "n", "o", "p", "q", "r", "s", "t", "u", "v", "w", "x", "y", "z"}

Digits == {"0", "1", "2", "3", "4", "5", "6", "7", "8", "9"}

\* \s of a regular expression and the characters String.prototype.trim drops.
IsSpace(ch) == ch \in {" ", "\t", "\n", "\r"}

StartsWithAt(s, i, pat) ==
    /\ i >= 1
    /\ i + Len(pat) - 1 <= Len(s)
    /\ \A k \in 1..Len(pat) : s[i + k - 1] = pat[k]

\* String.prototype.includes
Includes(s, pat) ==
    \E i \in 1..(Len(s) - Len(pat) + 1) : StartsWithAt(s, i, pat)

\* String.prototype.trim
Trim(s) ==
    LET keep == {i \in 1..Len(s) : ~IsSpace(s[i])}
    IN IF keep = {} THEN <<>>
       ELSE SubSeq(s, CHOOSE i \in keep : \A j \in keep : i <= j,
                      CHOOSE i \in keep : \A j \in keep : i >= j)

\* String.prototype.split on a one-character separator
RECURSIVE Split(_, _)
Split(s, sep) ==
    LET at == {i \in 1..Len(s) : s[i] = sep}
    IN IF at = {} THEN <<s>>
       ELSE LET i == CHOOSE i \in at : \A j \in at : i <= j
            IN <<SubSeq(s, 1, i - 1)>> \o Split(SubSeq(s, i + 1, Len(s)), sep)

\* Where a greedy character class repeated from position i stops: the last
\* position of the longest run of characters of the class starting at i,
\* and i - 1 when s[i] is not in the class.
RunEnd(s, i, class) ==
    LET stops == {k \in i..Len(s) : s[k] \notin class}
    IN IF stops = {} THEN Len(s)
       ELSE (CHOOSE k \in stops : \A j \in stops : k <= j) - 1

\* Array.prototype.find, hits being the places of the elements that pass
\* the test: the first of them, the empty string standing for undefined
\* (the arrays searched hold no empty string).
Find(parts, hits) ==
    IF hits = {} THEN <<>>
    ELSE parts[CHOOSE i \in hits : \A j \in hits : i <= j]

\* The alternatives of tiendaNubeUrlRegex after the dot, in its order.
TiendaNubeDomains ==
    <<<<"m", "i", "t", "i", "e", "n", "d", "a", "n", "u", "b", "e", ".", "c", "o", "m">>,
       <<"n", "u", "v", "e", "m", "s", "h", "o", "p", ".", "c", "o", "m", ".", "b", "r">>,
       <<"n", "u", "v", "e", "m", "s", "h", "o", "p", ".", "c", "o", "m", ".", "a", "r">>,
       <<"n", "u", "v", "e", "m", "s", "h", "o", "p", ".", "c", "o", "m", ".", "m", "x">>,
       <<"n", "u", "v", "e", "m", "s", "h", "o", "p", ".", "c", "o", "m", ".", "c", "o">>>>

LabelChars == Letters \cup Digits \cup {"-"}

\* tiendaNubeUrlRegex tried at position i: the last position of the match,
\* 0 when it does not match there. The texts are lower case, on which the
\* i flag changes nothing.
UrlMatchEnd(s, i) ==
    IF ~StartsWithAt(s, i, <<"h", "t", "t", "p">>) THEN 0
    ELSE LET k == IF StartsWithAt(s, i + 4, <<"s">>) THEN i + 5 ELSE i + 4
         IN IF ~StartsWithAt(s, k, <<":", "/", "/">>) THEN 0
            ELSE LET e == RunEnd(s, k + 3, LabelChars)
                     ds == {d \in 1..Len(TiendaNubeDomains) :
                              StartsWithAt(s, e + 2, TiendaNubeDomains[d])}
                 IN IF e < k + 3 \/ ~StartsWithAt(s, e + 1, <<".">>) \/ ds = {}
                    THEN 0
                    ELSE e + 1 + Len(TiendaNubeDomains[
                                   CHOOSE d \in ds : \A x \in ds : d <= x])

\* line.match(tiendaNubeUrlRegex): the matches of the g flag, left to right.
RECURSIVE UrlMatches(_, _)
UrlMatches(s, i) ==
    IF i > Len(s) THEN <<>>
    ELSE LET e == UrlMatchEnd(s, i)
         IN IF e = 0 THEN UrlMatches(s, i + 1)
            ELSE <<SubSeq(s, i, e)>> \o UrlMatches(s, e + 1)

\* line.replace(tiendaNubeUrlRegex, '')
RECURSIVE RemoveUrls(_, _)
RemoveUrls(s, i) ==
    IF i > Len(s) THEN <<>>
    ELSE LET e == UrlMatchEnd(s, i)
         IN IF e = 0 THEN <<s[i]>> \o RemoveUrls(s, i + 1)
            ELSE RemoveUrls(s, e + 1)

\* replace(/\/$/, '')
StripTrailingSlash(s) ==
    IF s # <<>> /\ s[Len(s)] = "/" THEN SubSeq(s, 1, Len(s) - 1) ELSE s

LocalChars == Letters \cup Digits \cup {".", "_", "%", "+", "-"}

DomainChars == Letters \cup Digits \cup {".", "-"}

\* /[a-zA-Z0-9._%+-]+@[a-zA-Z0-9.-]+\.[a-zA-Z]{2,}/ tried at position i: the
\* last position of the match, 0 when it does not match there. The local
\* part is the run up to the "@"; the greedy domain gives back characters
\* down to the last dot that two letters follow.
EmailMatchEnd(s, i) ==
    LET r == RunEnd(s, i, LocalChars)
    IN IF r < i \/ ~StartsWithAt(s, r + 1, <<"@">>) THEN 0
       ELSE LET q == RunEnd(s, r + 2, DomainChars)
                dots == {d \in (r + 3)..(q - 2) :
                           s[d] = "." /\ s[d + 1] \in Letters /\ s[d + 2] \in Letters}
            IN IF dots = {} THEN 0
               ELSE RunEnd(s, (CHOOSE d \in dots : \A x \in dots : d >= x) + 1,
                           Letters)

\* cleanLine.match(email pattern)[0], the empty string when there is no match.
EmailMatch(s) ==
    LET starts == {i \in 1..Len(s) : EmailMatchEnd(s, i) > 0}
    IN IF starts = {} THEN <<>>
       ELSE LET i == CHOOSE i \in starts : \A j \in starts : i <= j
            IN SubSeq(s, i, EmailMatchEnd(s, i))

\* s.replace(pat, '') with a string pattern: the first occurrence goes.
RemoveFirst(s, pat) ==
    LET at == {i \in 1..Len(s) : StartsWithAt(s, i, pat)}
    IN IF at = {} THEN s
       ELSE LET i == CHOOSE i \in at : \A j \in at : i <= j
            IN SubSeq(s, 1, i - 1) \o SubSeq(s, i + Len(pat), Len(s))

\* s.trim().split(/\s+/)[0] || ''
FirstWord(s) ==
    LET t == Trim(s)
        spaces == {k \in 1..Len(t) : IsSpace(t[k])}
    IN IF spaces = {} THEN t
       ELSE SubSeq(t, 1, (CHOOSE k \in spaces : \A j \in spaces : k <= j) - 1)

Separators == <<":", "|", " ", ",", "\t">>

\* cleanLine.split(sep).map(p => p.trim()).filter(p => p)
Parts(cleanLine, sep) ==
    LET pieces == Split(cleanLine, sep)
    IN SelectSeq([i \in 1..Len(pieces) |-> Trim(pieces[i])],
                 LAMBDA p : p # <<>>)

NoPair == [email |-> <<>>, password |-> <<>>]

\* What the branch of a separator that gave two parts or more leaves in
\* email and password.
PairOf(parts) ==
    LET emailPart == Find(parts, {i \in 1..Len(parts) : Includes(parts[i], <<"@">>)})
    IN IF emailPart = <<>> THEN NoPair
       ELSE [email |-> emailPart,
             password |->
                 Find(parts, {i \in 1..Len(parts) :
                                 /\ parts[i] # emailPart
                                 /\ ~Includes(parts[i], <<"h", "t", "t", "p">>)
                                 /\ ~Includes(parts[i], <<".", "c", "o", "m">>)})]

RECURSIVE TrySeparatorsBreakingWhenPresent(_, _)
TrySeparatorsBreakingWhenPresent(cleanLine, k) ==
    IF k > Len(Separators) THEN NoPair
    ELSE IF ~Includes(cleanLine, <<Separators[k]>>)
         THEN TrySeparatorsBreakingWhenPresent(cleanLine, k + 1)
         ELSE LET parts == Parts(cleanLine, Separators[k])
              IN IF Len(parts) >= 2 THEN PairOf(parts) ELSE NoPair

\* The loop over the separators from the k-th on: a separator the line does
\* not hold, or whose split leaves fewer than two parts, passes to the next
\* one; the first split of two parts or more ends the loop.
RECURSIVE TrySeparators(_, _)
TrySeparators(cleanLine, k) ==
    IF k > Len(Separators) THEN NoPair
    ELSE IF ~Includes(cleanLine, <<Separators[k]>>)
         THEN TrySeparators(cleanLine, k + 1)
         ELSE LET parts == Parts(cleanLine, Separators[k])
              IN IF Len(parts) >= 2 THEN PairOf(parts)
                 ELSE TrySeparators(cleanLine, k + 1)

\* The email-pattern fallback, entered when email or password is empty.
Fallback(cleanLine, pair) ==
    LET emailMatch == EmailMatch(cleanLine)
    IN IF emailMatch = <<>> THEN pair
       ELSE [email |-> emailMatch,
             password |-> FirstWord(RemoveFirst(cleanLine, emailMatch))]

IsAccountWithAnyPassword(email, password) ==
    email # <<>> /\ Includes(email, <<"@">>)

\* if (email && password && email.includes('@'))
IsAccount(email, password) ==
    email # <<>> /\ password # <<>> /\ Includes(email, <<"@">>)

\* storeUrl after the URL search, the empty string when the line holds no
\* recognized URL.
StoreUrl(line) ==
    LET urlMatches == UrlMatches(line, 1)
    IN IF urlMatches = <<>> THEN <<>> ELSE StripTrailingSlash(urlMatches[1])

CleanLine(line) == Trim(RemoveUrls(line, 1))

\* What follows the loop over the separators, which left bySeparator in
\* email and password: the fallback if one of them is empty, then the push.
Finish(line, bySeparator) ==
    LET pair == IF bySeparator.email = <<>> \/ bySeparator.password = <<>>
                THEN Fallback(CleanLine(line), bySeparator)
                ELSE bySeparator
    IN IF IsAccount(pair.email, pair.password)
       THEN <<[email |-> pair.email, password |-> pair.password,
               storeUrl |-> StoreUrl(line)]>>
       ELSE <<>>

\* The body of the loop over the lines: the accounts one line adds, none or
\* one.
ParseLine(line) == Finish(line, TrySeparators(CleanLine(line), 1))

\* content.split('\n').filter(line => line.trim())
LinesOf(text) == SelectSeq(Split(text, "\n"), LAMBDA line : Trim(line) # <<>>)

RECURSIVE ParseLines(_)
ParseLines(lines) ==
    IF lines = <<>> THEN <<>>
    ELSE ParseLine(Head(lines)) \o ParseLines(Tail(lines))

ParseAccountFile(text) == ParseLines(LinesOf(text))

\* The texts a file is drawn from: a letter, the punctuation the parser
\* looks at, an email address and a recognized store URL, strung together.
EmailText == <<"u", "@", "s", ".", "c", "o">>

UrlText == <<"h", "t", "t", "p", "s", ":", "/", "/", "s", ".", "m", "i", "t", "i", "e", "n", "d", "a", "n", "u", "b", "e", ".", "c", "o", "m">>

Tokens ==
    {<<"x">>, <<"@">>, <<".">>, <<":">>, <<"|">>, <<" ">>, <<",">>,
     <<"\t">>, <<"/">>, <<"\n">>, EmailText, UrlText}

RECURSIVE TokenTexts(_)
TokenTexts(n) ==
    IF n = 0 THEN {<<>>}
    ELSE {t \o w : t \in Tokens, w \in TokenTexts(n - 1)}

\* A store URL, with a trailing slash or without, an address and a secret,
\* separated by spaces.
UrlLine(slash, secret) ==
    UrlText \o slash \o <<" ">> \o EmailText \o <<" ">> \o secret

TrailingSlashes == {<<>>, <<"/">>}

Secrets == {<<"x">>, <<"x", "x">>}

UrlLines == {UrlLine(slash, secret) : slash \in TrailingSlashes, secret \in Secrets}

Contents == UNION {TokenTexts(n) : n \in 0..MaxTokens} \cup UrlLines

\* POST /api/files/upload with one .txt file whose text is content, the
\* first upload after construction.
UploadContent ==
    /\ files = {}
    /\ parsed' = ParseAccountFile(content)
    /\ StoreParsed(Len(parsed'))
    /\ UNCHANGED <<content, loginResponse, outcome>>

InitParser ==
    /\ InitProgram
    /\ content \in Contents
    /\ parsed = <<>>
    /\ loginResponse = NoLoginResponse
    /\ outcome = NoOutcome

NextParser == UploadContent

SpecParser == InitParser /\ [][NextParser]_vars

\* ------------------------------------- the classification of a login response
\* A login response is its status, the markers its Location header contains
\* and the markers its body contains; no marker is part of another, so any
\* set of them is the content of some text.
LocationMarkers == {"/admin", "dashboard", "home", "panel", "login"}

SuccessMarkers ==
    {"dashboard", "admin-panel", "Cerrar sesion", "Log out", "Mi tienda",
     "Panel de control"}

ErrorMarkers == {"contrasena incorrecta", "invalid", "error", "incorrecto"}

LoginStatuses == {200, 301, 302, 401}

BodyContents ==
    {b \in SUBSET (SuccessMarkers \cup ErrorMarkers) : Cardinality(b) <= MaxMarkers}

LoginResponses ==
    [status : LoginStatuses, location : SUBSET LocationMarkers, body : BodyContents]

\* The test on a 301 or 302 response.
RedirectAccepts(resp) ==
    /\ resp.status \in {301, 302}
    /\ "/admin" \in resp.location
    /\ \/ "dashboard" \in resp.location
       \/ "home" \in resp.location
       \/ "panel" \in resp.location
       \/ "login" \notin resp.location

Accepted == [valid |-> TRUE, error |-> NoMessage]

Rejected(detail) == [valid |-> FALSE, error |-> detail]

ClassifyLoginErrorsFirst(resp) ==
    IF RedirectAccepts(resp) THEN Accepted
    ELSE IF resp.body \cap ErrorMarkers # {} THEN Rejected("Credenciales incorrectas")
    ELSE IF resp.body \cap SuccessMarkers # {} THEN Accepted
    ELSE Rejected("No se pudo verificar el acceso al dashboard")

\* What validateTiendaNubeAccount returns once the login POST has answered.
ClassifyLogin(resp) ==
    IF RedirectAccepts(resp) THEN Accepted
    ELSE IF resp.body \cap SuccessMarkers # {} THEN Accepted
    ELSE IF resp.body \cap ErrorMarkers # {} THEN Rejected("Credenciales incorrectas")
    ELSE Rejected("No se pudo verificar el acceso al dashboard")

\* The end of validateTiendaNubeAccount for the response at hand.
ClassifyLoginResponse ==
    /\ outcome = NoOutcome
    /\ loginResponse # NoLoginResponse
    /\ outcome' = ClassifyLogin(loginResponse)
    /\ UNCHANGED <<files, currentFileId, accounts, currentAccountId, jobs, clock,
                   validationQueue, isValidating, validationSettings, cycles,
                   timers, lastResponse, content, parsed, loginResponse>>

InitClassifier ==
    /\ InitProgram
    /\ content = <<>>
    /\ parsed = <<>>
    /\ loginResponse \in LoginResponses
    /\ outcome = NoOutcome

NextClassifier == ClassifyLoginResponse

SpecClassifier == InitClassifier /\ [][NextClassifier]_vars

\* -------------------------------------------------------------- broadcasts
\* The progress message of the fold, built from the accounts as they are
\* stored when the batch is over.
ProgressMessage(accts) ==
    [type |-> "progress",
     processed |-> CountProcessed(accts),
     valid |-> CountStatus(accts, "valid"),
     invalid |-> CountStatus(accts, "invalid"),
     errors |-> CountStatus(accts, "error"),
     total |-> Cardinality(DOMAIN accts)]

JobCompletedMessage == [type |-> "jobCompleted"]

\* What the tail of processValidationQueue broadcasts, in order, when it
\* folds the batch of job id over the stored accounts accts.
FoldBroadcasts(js, id, accts, queue) ==
    <<ProgressMessage(accts)>> \o
    (IF FoldDecision(FoldProgress(js, id, accts), queue) = "complete"
     THEN <<JobCompletedMessage>>
     ELSE <<>>)

\* ================================================================= claims
JobIds == 1..Len(jobs)

ActiveJobs == {j \in JobIds : IsActive(jobs[j])}

CurrentStatusIn(S) ==
    GetCurrentJob(jobs) # 0 /\ jobs[GetCurrentJob(jobs)].status \in S

StartWellFormed == \E body \in Bodies : StartNoPending(body) \/ StartJob(body)

\* C1: at most one job in storage has status running or paused.
C1_AtMostOneActiveJob == Cardinality(ActiveJobs) <= 1

\* C2: a start request with a well-formed body, issued while some job is
\* running or paused, is answered 400, creates no job and leaves the jobs,
\* the queue and the scheduler settings as they were.
C2_StartRefusedWhileActive ==
    [][(ActiveJobs # {} /\ StartWellFormed)
         => (/\ lastResponse'.code = 400
             /\ UNCHANGED <<jobs, validationQueue, validationSettings>>)]_vars

\* C3: for every job, processedAccounts = validAccounts + invalidAccounts +
\* errorAccounts.
C3_ProcessedIsSumOfOutcomes ==
    \A j \in JobIds :
        jobs[j].processedAccounts =
            jobs[j].validAccounts + jobs[j].invalidAccounts + jobs[j].errorAccounts

\* C3 witness: a fold has written counters that mix both outcomes.
C3_Witness ==
    \E j \in JobIds :
        /\ jobs[j].processedAccounts = 2
        /\ jobs[j].validAccounts = 1
        /\ jobs[j].invalidAccounts = 1

\* C4: for every job, processedAccounts <= totalAccounts.
C4_ProcessedAtMostTotal ==
    \A j \in JobIds : jobs[j].processedAccounts <= jobs[j].totalAccounts

\* C5: once a job's status is stopped or completed it never changes again.
C5_TerminalStatusIsFinal ==
    [][\A j \in JobIds :
          jobs[j].status \in {"stopped", "completed"}
              => jobs'[j].status = jobs[j].status]_vars

\* C6: a job's status becomes completed only in a step in which it was
\* running and the queue is empty; in particular a paused job is never
\* turned into a completed one.
C6_CompletedOnlyFromRunning ==
    [][\A j \in JobIds :
          (jobs[j].status # "completed" /\ jobs'[j].status = "completed")
              => (jobs[j].status = "running" /\ validationQueue = <<>>)]_vars

\* C7: a pause when the current job is not running, a resume when it is not
\* paused and a stop when it is neither are answered 400 and leave the
\* jobs (status, timestamps, counters), the accounts, the queue and the
\* cycle in flight as they were.
C7_RefusedControlChangesNothing ==
    [][(\/ (Pause /\ ~CurrentStatusIn({"running"}))
        \/ (Resume /\ ~CurrentStatusIn({"paused"}))
        \/ (Stop /\ ~CurrentStatusIn({"running", "paused"})))
         => (/\ lastResponse'.code = 400
             /\ UNCHANGED <<jobs, accounts, validationQueue, cycles, timers>>)]_vars

\* C7 witness: a pause was just refused on a job that is already paused.
C7_Witness ==
    /\ lastResponse = Response("pause", 400)
    /\ CurrentStatusIn({"paused"})

\* C8: a job started and then neither paused nor stopped ends completed with
\* processed = total and valid + invalid + error = total (checked under
\* SpecNoControl, where no pause, resume or stop is ever issued).
C8_CompletedRunProcessedAll ==
    \A j \in JobIds :
        jobs[j].status = "completed"
            => /\ jobs[j].processedAccounts = jobs[j].totalAccounts
               /\ jobs[j].validAccounts + jobs[j].invalidAccounts
                    + jobs[j].errorAccounts = jobs[j].totalAccounts

\* C9: the attempts in flight never outnumber the concurrentThreads in the
\* settings of the job their cycle runs for.
C9_InFlightWithinJobWidth ==
    \A c \in 1..Len(cycles) :
        Cardinality(cycles[c].left)
            <= jobs[cycles[c].job].settings.concurrentThreads

\* C10: at most one cycle is executing, and a call to processValidationQueue
\* made by start, resume or a timer while a cycle is executing takes
\* nothing from the queue and starts no attempt.
C10_OneDrainCycle ==
    /\ [](Len(cycles) <= 1)
    /\ [][(cycles # <<>>)
            => /\ (ResumeJob \/ TimerFires)
                    => (cycles' = cycles /\ validationQueue' = validationQueue)
               /\ (\E body \in Bodies : StartJob(body))
                    => (cycles' = cycles
                        /\ validationQueue' = PendingAccounts(accounts))]_vars

\* C10 witness: a start found the batch of the stopped job still in flight;
\* its call to processValidationQueue left the seeded queue whole.
C10_Witness ==
    /\ lastResponse = Response("start", 200)
    /\ Len(cycles) = 1
    /\ jobs[cycles[1].job].status = "stopped"
    /\ validationQueue # <<>>
    /\ validationQueue = PendingAccounts(accounts)

\* The accounts that have an attempt in flight.
InFlight == UNION {cycles[c].left : c \in 1..Len(cycles)}

TerminalStatuses == {"valid", "invalid", "error"}

\* C11: an account whose status is valid, invalid or error keeps that status
\* in every later step and is never handed to an attempt again, whatever
\* start, pause, resume and stop requests arrive.
C11_TerminalRecordIsFinal ==
    [][\A a \in DOMAIN accounts :
          accounts[a].status \in TerminalStatuses
              => /\ a \in DOMAIN accounts' => accounts'[a].status = accounts[a].status
                 /\ a \in InFlight' => a \in InFlight]_vars

\* C12: right after an accepted stop, the job's records that are pending
\* number totalAccounts - processedAccounts. The store keeps no link from an
\* account to a job; when totalAccounts equals the number of stored accounts,
\* every stored account is one of the job's records (all were pending when
\* it started), and the pending ones are counted over the store.
C12_StopLeavesUnprocessedPending ==
    [][StopJob =>
         LET j == GetCurrentJob(jobs) IN
         jobs[j].totalAccounts = Cardinality(DOMAIN accounts)
             => CountStatus(accounts', "pending")
                    = jobs'[j].totalAccounts - jobs'[j].processedAccounts]_vars

\* C13: an account whose attempt ended in a transport failure (its failure
\* detail is the transport message) has status error, not invalid.
C13_TransportFailureIsError ==
    \A a \in DOMAIN accounts :
        accounts[a].errorMessage = TransportFailure.error
            => accounts[a].status = "error"

\* The status an attempt's result alone prescribes.
OwnStatus(result) == IF result.valid THEN "valid" ELSE "invalid"

\* C14: when the attempt on one account of a batch ends in a failure of the
\* prober, the other accounts of the batch are left as they were and stay in
\* flight until their own attempts end; every attempt writes the status (and,
\* when it failed, the detail) its own result prescribes; after the last attempt the fold runs
\* (the cycle ends, isValidating is cleared, the job's counters are the
\* counts over the accounts); and no job changes status because of the
\* failure: the only status change is the fold's completion.
C14_FailureStaysWithItsRecord ==
    [][\A c \in 1..Len(cycles) : \A a \in cycles[c].left :
          /\ \A result \in ValidateResults :
                (AttemptDone(c, a, result) \/ BatchFold(c, a, result))
                    => /\ accounts'[a].status = OwnStatus(result)
                       /\ ~result.valid => accounts'[a].errorMessage = result.error
          /\ AttemptDone(c, a, TransportFailure)
                => /\ \A b \in DOMAIN accounts \ {a} : accounts'[b] = accounts[b]
                   /\ cycles'[c].left = cycles[c].left \ {a}
                   /\ jobs' = jobs
          /\ BatchFold(c, a, TransportFailure)
                => /\ \A b \in DOMAIN accounts \ {a} : accounts'[b] = accounts[b]
                   /\ Len(cycles') = Len(cycles) - 1
                   /\ isValidating' = FALSE
                   /\ jobs'[cycles[c].job].processedAccounts
                        = Cardinality({b \in DOMAIN accounts' :
                                          accounts'[b].status # "pending"})
                   /\ \A j \in JobIds :
                         jobs'[j].status # jobs[j].status
                             => jobs'[j].status = "completed"]_vars

\* C14 witness: the one batch of a job of width 2 has been folded with one
\* account failed by a transport failure and the other one accepted.
C14_Witness ==
    /\ Len(jobs) = 1
    /\ jobs[1].settings.concurrentThreads = 2
    /\ jobs[1].totalAccounts = 2
    /\ jobs[1].processedAccounts = 2
    /\ \E a, b \in DOMAIN accounts :
          /\ accounts[a].errorMessage = TransportFailure.error
          /\ accounts[b].status = "valid"

\* The four counters of a job, and the same four counts taken over accounts.
Counters(job) ==
    <<job.processedAccounts, job.validAccounts, job.invalidAccounts,
      job.errorAccounts>>

StatusCounts(accts) ==
    <<Cardinality({a \in DOMAIN accts : accts[a].status \in TerminalStatuses}),
      Cardinality({a \in DOMAIN accts : accts[a].status = "valid"}),
      Cardinality({a \in DOMAIN accts : accts[a].status = "invalid"}),
      Cardinality({a \in DOMAIN accts : accts[a].status = "error"})>>

\* C15: a job's counters are zero when it is created and change only in a
\* step that ends a batch, after which no attempt is in flight and the
\* counters are the counts of the account statuses at that moment; so the
\* counters read at any time are those of the end of a whole batch.
C15_CountersChangeOnlyAtFold ==
    [][\A j \in 1..Len(jobs') :
          \/ j \in JobIds /\ Counters(jobs'[j]) = Counters(jobs[j])
          \/ j \notin JobIds /\ Counters(jobs'[j]) = <<0, 0, 0, 0>>
          \/ /\ Len(cycles') < Len(cycles)
             /\ InFlight' = {}
             /\ Counters(jobs'[j]) = StatusCounts(accounts')]_vars

\* C15 witness: one attempt of a batch has written its account, another
\* attempt of the batch is in flight, and the job's counters are still zero.
C15_Witness ==
    /\ Len(cycles) = 1
    /\ cycles[1].left # {}
    /\ \E a \in Range(cycles[1].batch) \ cycles[1].left :
          accounts[a].status \in TerminalStatuses
    /\ Counters(jobs[cycles[1].job]) = <<0, 0, 0, 0>>

\* C16: while the current job is paused (in every step other than an accepted
\* resume or stop) no account leaves the queue, no new attempt starts, and an
\* attempt that ends has written its outcome to its account.
C16_PausedSchedulerHolds ==
    [][(CurrentStatusIn({"paused"}) /\ ~ResumeJob /\ ~StopJob)
         => /\ Range(validationQueue) \subseteq Range(validationQueue')
            /\ InFlight' \subseteq InFlight
            /\ \A a \in InFlight \ InFlight' :
                  accounts'[a].status \in TerminalStatuses]_vars

\* The batch a step hands to new attempts (empty when it starts no cycle).
Launched ==
    IF Len(cycles') > Len(cycles) THEN cycles'[Len(cycles')].batch ELSE <<>>

\* C17: a pause followed by a resume loses and duplicates no work: the pause
\* leaves the queue and the cycle in flight as they are; the resume hands out
\* the head of the queue and keeps the rest in order, and every account it
\* hands to an attempt is one that has not been attempted before (it is
\* pending and has no attempt in flight).
C17_PauseResumeKeepsWork ==
    [][/\ PauseJob => (validationQueue' = validationQueue /\ cycles' = cycles)
       /\ ResumeJob
            => /\ Launched \o validationQueue' = validationQueue
               /\ \A a \in Range(Launched) :
                     accounts[a].status = "pending" /\ a \notin InFlight]_vars

\* C18: a start request with a well-formed body made when no account is
\* pending is answered 400, creates no job and leaves the jobs, the queue and
\* the scheduler settings as they were.
C18_RefusedStartChangesNothing ==
    [][(StartWellFormed /\ PendingAccounts(accounts) = <<>>)
         => (/\ lastResponse' = Response("start", 400)
             /\ UNCHANGED <<jobs, validationQueue, validationSettings>>)]_vars

\* C19: every attempt is ended by the job's per-attempt timeout: no attempt
\* is in flight after the job's timeoutSeconds have elapsed on it, so a remote
\* side that never answers cannot keep a batch from its fold.
C19_AttemptsEndByTimeout ==
    \A c \in 1..Len(cycles) : cycles[c].left \cap cycles[c].overdue = {}

\* C20: no account has two attempts in flight at the same time (the accounts
\* in flight of two cycles are disjoint) and no account appears twice in the
\* batch of a cycle.
C20_OneAttemptPerRecord ==
    /\ \A c, d \in 1..Len(cycles) :
          c # d => cycles[c].left \cap cycles[d].left = {}
    /\ \A c \in 1..Len(cycles) : \A i, k \in 1..Len(cycles[c].batch) :
          i # k => cycles[c].batch[i] # cycles[c].batch[k]

\* C20 witness: both accounts of a batch are in flight and a later start has
\* put both in the queue again.
C20_Witness ==
    /\ Len(cycles) = 1
    /\ cycles[1].left = {1, 2}
    /\ validationQueue = <<1, 2>>

\* C21: no counter of a job (processed, valid, invalid, error) ever
\* decreases, whatever is uploaded or deleted in between.
C21_CountersNeverDecrease ==
    [][\A j \in JobIds : \A i \in 1..4 :
          Counters(jobs'[j])[i] >= Counters(jobs[j])[i]]_vars

\* The statuses a stored job can carry, and the job lists of up to
\* MaxRestartJobs jobs with those statuses.
JobStatuses == {"idle", "running", "paused", "stopped", "completed"}

JobLists == UNION {[1..n -> [status : JobStatuses]] : n \in 0..MaxRestartJobs}

\* What the claim says of the id cur returned for the job list js.
IsCurrentJobOf(cur, js) ==
    IF \E i \in 1..Len(js) : js[i].status \in {"running", "paused"}
    THEN cur \in 1..Len(js) /\ js[cur].status \in {"running", "paused"}
    ELSE cur = Len(js)

\* C22: getCurrentJob returns a job whose status is running or paused when
\* there is one, otherwise the most recently created job, and undefined (0)
\* when no job was ever created; for the stored jobs of every state and for
\* every list of up to MaxRestartJobs jobs.
C22_CurrentJobIsActiveOrLatest ==
    /\ IsCurrentJobOf(GetCurrentJob(jobs), jobs)
    /\ \A js \in JobLists : IsCurrentJobOf(GetCurrentJob(js), js)

\* C22 witness: with two jobs active, a pause was accepted and acted on the
\* job getCurrentJob returned, the older one.
C22_Witness ==
    /\ Len(jobs) >= 2
    /\ lastResponse = Response("pause", 200)
    /\ jobs[1].status = "paused"
    /\ jobs[2].status = "running"
    /\ GetCurrentJob(jobs) = 1

\* C23: an account whose store could not be discovered (its failure detail is
\* the discovery message) is not given status invalid.
C23_UndiscoverableIsNotInvalid ==
    \A a \in DOMAIN accounts :
        accounts[a].errorMessage = EndpointUndiscoverable.error
            => accounts[a].status # "invalid"

\* C24: every record parseAccountFile returns has an identifier that holds
\* "@" and a secret that is not empty, and a line without an "@" adds no
\* record; no line adds more than one.
C24_RecordsHaveIdentifierAndSecret ==
    lastResponse.op = "upload" =>
        /\ \A i \in 1..Len(parsed) :
              /\ Includes(parsed[i].email, <<"@">>)
              /\ parsed[i].password # <<>>
        /\ \A line \in Range(LinesOf(content)) :
              /\ Len(ParseLine(line)) <= 1
              /\ ~Includes(line, <<"@">>) => ParseLine(line) = <<>>

\* C24 happens: a file of two lines was uploaded; the first gave the one
\* record, under the address it holds, and the second gave none.
C24_Witness ==
    /\ lastResponse.op = "upload"
    /\ Len(LinesOf(content)) = 2
    /\ Len(parsed) = 1
    /\ parsed[1].email = EmailText
    /\ ParseLine(LinesOf(content)[2]) = <<>>

\* The separators, by their place in the order, that a line stripped of its
\* URLs holds, and those among them whose split leaves two pieces or more.
PresentSeparators(cleanLine) ==
    {k \in 1..Len(Separators) : Includes(cleanLine, <<Separators[k]>>)}

SplittingSeparators(cleanLine) ==
    {k \in PresentSeparators(cleanLine) :
        Len(Parts(cleanLine, Separators[k])) >= 2}

\* The identifier and the secret that the split on the first separator of
\* ks gives, when it leaves two pieces or more.
SplitOnFirst(cleanLine, ks) ==
    IF ks = {} THEN NoPair
    ELSE LET parts == Parts(cleanLine,
                            Separators[CHOOSE k \in ks : \A j \in ks : k <= j])
         IN IF Len(parts) >= 2 THEN PairOf(parts) ELSE NoPair

\* C25 as stated: a line is split only on the first separator, in the order
\* ":", "|", space, comma, tab, that it holds; if that split gives no
\* identifier and secret, only the email-pattern fallback applies.
C25_OnlyFirstPresentSeparator ==
    lastResponse.op = "upload" =>
        \A line \in Range(LinesOf(content)) :
            ParseLine(line) =
                Finish(line, SplitOnFirst(CleanLine(line),
                                          PresentSeparators(CleanLine(line))))

\* C25 amended: a line is split only on the first separator, in that order,
\* that it holds and whose split leaves two pieces or more; a separator
\* whose split leaves fewer is passed over. If the split used gives no
\* identifier and secret, only the email-pattern fallback applies.
C25_OnlyFirstSplittingSeparator ==
    lastResponse.op = "upload" =>
        \A line \in Range(LinesOf(content)) :
            ParseLine(line) =
                Finish(line, SplitOnFirst(CleanLine(line),
                                          SplittingSeparators(CleanLine(line))))

\* C25 happens: a line whose first separator leaves one piece was uploaded,
\* and a later separator gave its record.
C25_Witness ==
    /\ lastResponse.op = "upload"
    /\ \E line \in Range(LinesOf(content)) :
          LET ks == PresentSeparators(CleanLine(line))
              first == CHOOSE k \in ks : \A j \in ks : k <= j
          IN /\ ks # {}
             /\ first \notin SplittingSeparators(CleanLine(line))
             /\ SplittingSeparators(CleanLine(line)) # {}
             /\ ParseLine(line) # <<>>
             /\ Finish(line, NoPair) = <<>>

\* C26: a line made of a recognized store URL, with a trailing slash or
\* without, an identifier and a secret separated by spaces gives exactly one
\* record: that identifier, that secret, and the URL without the slash.
C26_UrlLineGivesItsRecord ==
    \A slash \in TrailingSlashes : \A secret \in Secrets :
        lastResponse.op = "upload" /\ content = UrlLine(slash, secret) =>
            parsed = <<[email |-> EmailText, password |-> secret,
                        storeUrl |-> UrlText]>>

\* C27: a 301 or 302 login response is accepted by the redirect rule exactly
\* when its Location holds the admin-area marker and not the login marker.
C27_RedirectAcceptsAdminWithoutLogin ==
    outcome # NoOutcome /\ loginResponse.status \in {301, 302} =>
        (RedirectAccepts(loginResponse) <=>
            "/admin" \in loginResponse.location /\ "login" \notin loginResponse.location)

\* C28: a login response is classified in this order: the redirect rule
\* accepts; else an authenticated-session marker in the body accepts; else
\* an invalid-credential marker rejects with that reason; else the response
\* is rejected with the could-not-verify detail. No response gives error.
C28_ClassificationIsOrderedAndTotal ==
    outcome # NoOutcome =>
        LET success == loginResponse.body \cap SuccessMarkers # {}
            failure == loginResponse.body \cap ErrorMarkers # {}
        IN /\ RedirectAccepts(loginResponse) => outcome = Accepted
           /\ ~RedirectAccepts(loginResponse) /\ success => outcome = Accepted
           /\ ~RedirectAccepts(loginResponse) /\ ~success /\ failure =>
                  outcome = Rejected("Credenciales incorrectas")
           /\ ~RedirectAccepts(loginResponse) /\ ~success /\ ~failure =>
                  outcome = Rejected("No se pudo verificar el acceso al dashboard")
           /\ outcome \in ValidateResults
           /\ OwnStatus(outcome) \in {"valid", "invalid"}

\* C28 happens: a response that is no accepted redirect, whose body holds
\* both an authenticated-session and an invalid-credential marker, was
\* classified.
C28_Witness ==
    /\ outcome = Accepted
    /\ ~RedirectAccepts(loginResponse)
    /\ loginResponse.status \in {301, 302}
    /\ loginResponse.body \cap SuccessMarkers # {}
    /\ loginResponse.body \cap ErrorMarkers # {}

\* The messages of one type among those broadcast.
OfType(messages, type) ==
    {i \in 1..Len(messages) : messages[i].type = type}

\* C29: every batch fold broadcasts exactly one progress message, whose
\* processed, valid, invalid and errors are the counters stored in the
\* batch's job and whose total is that job's total; it broadcasts one
\* jobCompleted when a job becomes completed in it, and none otherwise.
C29_FoldPublishesTheJobsProgress ==
    [][\A c \in 1..Len(cycles) : \A a \in cycles[c].left :
         \A result \in ValidateResults :
            BatchFold(c, a, result) =>
                LET sent == FoldBroadcasts(jobs, cycles[c].job,
                                           RecordOutcome(accounts, a, result),
                                           validationQueue)
                    job == jobs'[cycles[c].job]
                    becameCompleted ==
                        {j \in 1..Len(jobs) : /\ jobs[j].status # "completed"
                                              /\ jobs'[j].status = "completed"}
                IN /\ Cardinality(OfType(sent, "progress")) = 1
                   /\ \A i \in OfType(sent, "progress") :
                         /\ <<sent[i].processed, sent[i].valid, sent[i].invalid,
                              sent[i].errors>> = Counters(job)
                         /\ sent[i].total = job.totalAccounts
                   /\ Cardinality(OfType(sent, "jobCompleted")) =
                         Cardinality(becameCompleted)]_vars

\* The queue as the start handler seeded it, seen after the handler: the
\* batch its call of processValidationQueue launched, if it launched one,
\* followed by what it left in the queue.
Seeded ==
    IF Len(cycles') > Len(cycles)
    THEN cycles'[Len(cycles')].batch \o validationQueue'
    ELSE validationQueue'

\* C30: a successful start adds one job, running, whose total is the number
\* of accounts pending at that moment, whose counters are zero and whose
\* settings are those of the request; the queue it seeds holds exactly the
\* pending accounts, once each, in the order of storage (ascending ids).
C30_StartSeedsJobAndQueue ==
    [][\A body \in Bodies :
         StartJob(body) =>
            LET pending == {a \in DOMAIN accounts : accounts[a].status = "pending"}
                job == jobs'[Len(jobs')]
            IN /\ Len(jobs') = Len(jobs) + 1
               /\ \A j \in 1..Len(jobs) : jobs'[j] = jobs[j]
               /\ job.status = "running"
               /\ job.totalAccounts = Cardinality(pending)
               /\ Counters(job) = <<0, 0, 0, 0>>
               /\ job.settings = SchemaParse(body)
               /\ Len(Seeded) = Cardinality(pending)
               /\ Range(Seeded) = pending
               /\ \A i, k \in 1..Len(Seeded) : i < k => Seeded[i] < Seeded[k]]_vars

\* C30 happens: a second job was started when one of the two accounts was
\* already processed; its total is 1 and the other account is its work.
C30_Witness ==
    /\ lastResponse = Response("start", 200)
    /\ Len(jobs) = 2
    /\ jobs[2].status = "running"
    /\ jobs[2].totalAccounts = 1
    /\ DOMAIN accounts = {1, 2}
    /\ accounts[1].status \in TerminalStatuses
    /\ accounts[2].status = "pending"
    /\ 2 \in InFlight \cup Range(validationQueue)

\* What a call of processValidationQueue that is not turned away at its
\* first line (no cycle in progress, queue not empty) does with the queue it
\* finds: on a running current job it takes the first n accounts, in their
\* order, as the batch of a new cycle, n being the smaller of the width in
\* the scheduler's settings and the length of the queue, and leaves the
\* rest; on a current job that is not running it takes nothing.
CycleTakes(queue) ==
    LET cur == GetCurrentJob(jobs')
        width == validationSettings'.concurrentThreads
        n == IF width <= Len(queue) THEN width ELSE Len(queue)
    IN ~isValidating /\ queue # <<>> =>
          IF cur # 0 /\ jobs'[cur].status = "running"
          THEN /\ n >= 1
               /\ Len(cycles') = Len(cycles) + 1
               /\ cycles'[Len(cycles')].batch = SubSeq(queue, 1, n)
               /\ cycles'[Len(cycles')].left = {queue[i] : i \in 1..n}
               /\ validationQueue' = SubSeq(queue, n + 1, Len(queue))
               /\ isValidating'
          ELSE /\ cycles' = cycles
               /\ validationQueue' = queue
               /\ ~isValidating'

\* C31: each cycle that runs on a running job removes exactly
\* min(width, queue length) accounts from the head of the queue, in order,
\* at least one; a cycle that finds the current job not running removes
\* nothing and starts no attempt. The calls are those of a timer, of a
\* resume and of a start (on the queue it has just seeded).
C31_CycleTakesHeadOfQueue ==
    [][/\ TimerFires \/ ResumeJob => CycleTakes(validationQueue)
       /\ \A body \in Bodies :
             StartJob(body) => CycleTakes(PendingAccounts(accounts))]_vars

\* C31 happens: a cycle of width 1 took the first of the queued accounts and
\* left the second in the queue.
C31_Witness ==
    /\ validationSettings.concurrentThreads = 1
    /\ cycles # <<>>
    /\ cycles[Len(cycles)].batch = <<1>>
    /\ validationQueue = <<2>>
    /\ isValidating

\* C32: an accepted stop empties the queue and touches no account and no
\* attempt; while the queue is empty no step but a start puts anything in it
\* or starts an attempt; an account that is pending with no attempt in
\* flight stays stored and pending whatever happens; and the queue a start
\* seeds holds every account that is pending.
C32_StopDiscardsQueueForNextStart ==
    [][/\ StopJob =>
             /\ validationQueue' = <<>>
             /\ accounts' = accounts
             /\ cycles' = cycles
       /\ (validationQueue = <<>> /\ ~(\E body \in Bodies : StartJob(body))) =>
             /\ validationQueue' = <<>>
             /\ Launched = <<>>
       /\ \A a \in DOMAIN accounts \ InFlight :
             accounts[a].status = "pending" =>
                 a \in DOMAIN accounts' /\ accounts'[a].status = "pending"
       /\ \A body \in Bodies :
             StartJob(body) =>
                 \A a \in DOMAIN accounts :
                    accounts[a].status = "pending" => a \in Range(Seeded)]_vars

\* C32 happens: the first job took account 1 of its two accounts and was
\* stopped; the job started next has account 2, still pending, as its work.
C32_Witness ==
    /\ lastResponse = Response("start", 200)
    /\ Len(jobs) = 2
    /\ jobs[1].status = "stopped"
    /\ jobs[1].totalAccounts = 2
    /\ jobs[1].processedAccounts = 1
    /\ jobs[2].status = "running"
    /\ jobs[2].totalAccounts = 1
    /\ accounts[1].status \in TerminalStatuses
    /\ accounts[2].status = "pending"
    /\ \E c \in 1..Len(cycles) : cycles[c].job = 2 /\ cycles[c].batch = <<2>>

\* C33: a job whose status is completed has processedAccounts equal to
\* totalAccounts, whatever pauses, resumes, stops and file deletions there
\* were during its run.
C33_CompletedJobProcessedItsTotal ==
    \A j \in JobIds :
        jobs[j].status = "completed" =>
            jobs[j].processedAccounts = jobs[j].totalAccounts

\* C34: once a job is stopped or completed, no step changes its counters,
\* not even the fold of a batch that was in flight when it was stopped.
C34_TerminalJobCountersAreFrozen ==
    [][\A j \in JobIds :
          jobs[j].status \in {"stopped", "completed"} =>
              Counters(jobs'[j]) = Counters(jobs[j])]_vars

\* C35: no job is left running with nothing to carry it on: whenever a job
\* is running, a cycle is executing or a next-cycle timer is pending.
C35_RunningJobIsCarriedOn ==
    \A j \in JobIds :
        jobs[j].status = "running" => cycles # <<>> \/ timers > 0

\* C36: every account in the queue is stored, has status pending and has no
\* attempt in flight.
C36_QueuedAccountsArePendingAndIdle ==
    \A a \in Range(validationQueue) :
        /\ a \in DOMAIN accounts
        /\ accounts[a].status = "pending"
        /\ a \notin InFlight

\* C37: at most one next-cycle timer is pending, and a batch that is
\* launched while a timer is pending is launched by that timer's callback
\* (so it comes the inter-batch delay after the batch that set the timer),
\* also when a pause and a resume, or a stop and a start, come in between.
C37_OneTimerSeparatesBatches ==
    [][/\ timers' <= 1
       /\ (timers > 0 /\ Launched # <<>>) => timers' = timers - 1]_vars

\* C38: an accepted resume changes, of the resumed job, the status (to
\* running) and the pause time (cleared) and nothing else: start time,
\* completion time, total, counters and settings are as before; the other
\* jobs are as before.
C38_ResumeKeepsTheJobsRecord ==
    [][ResumeJob =>
          \A j \in JobIds :
             jobs'[j] = IF j = GetCurrentJob(jobs)
                        THEN [jobs[j] EXCEPT !.status = "running", !.pausedAt = 0]
                        ELSE jobs[j]]_vars

====
